---- MODULE Spec2Model ----
(***************************************************************************)
(* Model of airflow_pg_healthcheck.py: the Airflow <-> Postgres Prometheus *)
(* exporter.  The module-level configuration load (env), the scrape cycle  *)
(* (scrape_once) and the daemon loop (main) are modelled step by step; the *)
(* socket, the psycopg2 driver and the database are the environment, whose *)
(* answers are chosen nondeterministically.                                *)
(***************************************************************************)
EXTENDS Integers, Sequences, FiniteSets, TLC

VARIABLES
    environ,   \* os.environ: variable name -> value (absent: NoneV)
    cfg,       \* the module-level settings PG_HOST ... WARN_LATENCY_MS
    pc,        \* where the process is
    http,      \* TRUE once start_http_server has been called
    g,         \* the nine Prometheus gauges
    l,         \* scrape_once's local variables
    sessions,  \* number of database sessions the exporter holds open
    cyc,       \* what the probes answered in the current (or last) cycle
    tg,        \* gauges of the twin run (same answers, "no row" -> row 0,0,0)
    tl         \* locals of the twin run

vars == <<environ, cfg, pc, http, g, l, sessions, cyc, tg, tl>>

(***************************************************************************)
(* Bounds of the model.                                                    *)
(***************************************************************************)
\* how far above a threshold the measured values of the model go
MaxOver == 1

(***************************************************************************)
(* Python values.  A string is a sequence of one-character strings; a      *)
(* value is tagged with its type.                                          *)
(***************************************************************************)
NoneV == [k |-> "none", s |-> <<>>, n |-> 0]
PyStr(s) == [k |-> "str", s |-> s, n |-> 0]
PyInt(n) == [k |-> "int", s |-> <<>>, n |-> n]
\* the marker of a raised RuntimeError (env) or of a failed cast
Raised == [k |-> "raise", s |-> <<>>, n |-> 0]

\* None as the value of a session count (SQL NULL fetched by psycopg2)
PyNone == -7

DigitChars == <<"0", "1", "2", "3", "4", "5", "6", "7", "8", "9">>

IsDigit(c) == \E d \in 1..10 : DigitChars[d] = c

DigitVal(c) == (CHOOSE d \in 1..10 : DigitChars[d] = c) - 1

RECURSIVE ParseDigits(_, _)
ParseDigits(s, acc) ==
    IF s = <<>> THEN acc
    ELSE ParseDigits(Tail(s), acc * 10 + DigitVal(Head(s)))

\* int(v): an int stays, a string of decimal digits is parsed, anything
\* else raises ValueError
CastInt(v) ==
    IF v.k = "int" THEN v
    ELSE IF v.k = "str" /\ v.s # <<>> /\ \A j \in 1..Len(v.s) : IsDigit(v.s[j])
         THEN PyInt(ParseDigits(v.s, 0))
         ELSE Raised

RECURSIVE Digits(_)
Digits(n) ==
    IF n < 10 THEN <<DigitChars[n + 1]>>
    ELSE Digits(n \div 10) \o <<DigitChars[(n % 10) + 1]>>

\* str(v)
CastStr(v) == IF v.k = "str" THEN v ELSE PyStr(Digits(v.n))

Cast(cast, v) == IF cast = "int" THEN CastInt(v) ELSE CastStr(v)

\* a faulty variant of env: the required check is missing
env_NoRequired(e, name, default, required, cast) ==
    LET val == IF e[name].k = "none" THEN default ELSE e[name] IN
    IF val.k = "none" THEN NoneV
    ELSE IF Cast(cast, val).k = "raise" THEN default
    ELSE Cast(cast, val)

\* env(name, default, required, cast) read in the environment e
env(e, name, default, required, cast) ==
    LET val == IF e[name].k = "none" THEN default ELSE e[name] IN
    IF required /\ val.k = "none" THEN Raised
    ELSE IF val.k = "none" THEN NoneV
    ELSE IF Cast(cast, val).k = "raise" THEN default
    ELSE Cast(cast, val)

(***************************************************************************)
(* The settings.                                                           *)
(***************************************************************************)
EnvNames == {"AF_PG_HOST", "AF_PG_PORT", "AF_PG_DB", "AF_PG_USER",
             "AF_PG_PASSWORD", "AF_SCRAPE_INTERVAL_SECONDS",
             "AF_EXPORTER_PORT", "AF_EXPORTER_ADDR", "AF_WARN_IDLE_IN_TX",
             "AF_WARN_ACTIVE_CONN", "AF_WARN_LATENCY_MS"}

S_localhost == <<"1", "2", "7", ".", "0", ".", "0", ".", "1">>
S_5432 == <<"5", "4", "3", "2">>
S_airflow == <<"a", "i", "r", "f", "l", "o", "w">>
S_anyaddr == <<"0", ".", "0", ".", "0", ".", "0">>

\* the module-level assignments, in the order of the file
LoadSettings(e) ==
    [PG_HOST          |-> env(e, "AF_PG_HOST", PyStr(S_localhost), FALSE, "str"),
     PG_PORT          |-> env(e, "AF_PG_PORT", PyStr(S_5432), FALSE, "int"),
     PG_DB            |-> env(e, "AF_PG_DB", PyStr(S_airflow), FALSE, "str"),
     PG_USER          |-> env(e, "AF_PG_USER", PyStr(S_airflow), FALSE, "str"),
     PG_PASSWORD      |-> env(e, "AF_PG_PASSWORD", NoneV, TRUE, "str"),
     SCRAPE_INTERVAL  |-> env(e, "AF_SCRAPE_INTERVAL_SECONDS", PyInt(10), FALSE, "int"),
     EXPORTER_PORT    |-> env(e, "AF_EXPORTER_PORT", PyInt(9105), FALSE, "int"),
     EXPORTER_ADDR    |-> env(e, "AF_EXPORTER_ADDR", PyStr(S_anyaddr), FALSE, "str"),
     WARN_IDLE_IN_TX  |-> env(e, "AF_WARN_IDLE_IN_TX", PyInt(5), FALSE, "int"),
     WARN_ACTIVE_CONN |-> env(e, "AF_WARN_ACTIVE_CONN", PyInt(80), FALSE, "int"),
     WARN_LATENCY_MS  |-> env(e, "AF_WARN_LATENCY_MS", PyInt(500), FALSE, "int")]

SettingNames == DOMAIN LoadSettings([x \in EnvNames |-> NoneV])

NoSettings == [x \in SettingNames |-> NoneV]

\* the environments of the model: the host, the password, the port and one
\* threshold are each absent or set; every other variable is absent
Environs ==
    {[x \in EnvNames |->
        CASE x = "AF_PG_HOST" -> host
          [] x = "AF_PG_PASSWORD" -> password
          [] x = "AF_PG_PORT" -> port
          [] x = "AF_WARN_IDLE_IN_TX" -> idle
          [] OTHER -> NoneV] :
        host \in {NoneV, PyStr(<<"d", "b">>)},
        password \in {NoneV, PyStr(<<"p", "w">>)},
        port \in {NoneV, PyStr(<<"a", "b", "c">>)},
        idle \in {NoneV, PyStr(<<"3">>), PyStr(<<"x">>)}}

(***************************************************************************)
(* Gauges and locals.                                                      *)
(***************************************************************************)
\* a prometheus_client Gauge starts at 0
InitGauges ==
    [up |-> 0, latency |-> 0, db_total |-> 0, db_active |-> 0,
     db_idle_in_tx |-> 0, af_total |-> 0, af_active |-> 0,
     af_idle_in_tx |-> 0, status |-> 0]

\* status = 0; latency_ms = -1; the six counts = 0
InitLocals ==
    [status |-> 0, latency_ms |-> -1, db_total |-> 0, db_active |-> 0,
     db_idle_in_tx |-> 0, af_total |-> 0, af_active |-> 0,
     af_idle_in_tx |-> 0]

Max(a, b) == IF a >= b THEN a ELSE b

\* faulty variants of MarkDown: the counts are zeroed; the status is not set
MarkDown_ZeroCounts(gg) ==
    [InitGauges EXCEPT !.up = 0, !.latency = -1, !.status = 2]

MarkDown_NoStatus(gg) == [gg EXCEPT !.up = 0, !.latency = -1]

\* PG_UP.set(0); PG_LATENCY_MS.set(-1); PG_STATUS.set(2)
MarkDown(gg) == [gg EXCEPT !.up = 0, !.latency = -1, !.status = 2]

\* status = max(status, 2) of the except clause
OnException(ll) == [ll EXCEPT !.status = Max(ll.status, 2)]

\* row = cur.fetchone(); latency_ms = ...; if row != (1,): status = max(status, 2)
AfterSelect1(ll, one, lat) ==
    [ll EXCEPT !.latency_ms = lat,
               !.status = IF one THEN ll.status ELSE Max(ll.status, 2)]

\* the answers of a statistics query: no row, a row of NULL sums, a row
NoRow == [k |-> "norow", a |-> 0, i |-> 0, t |-> 0]
NullRow == [k |-> "row", a |-> PyNone, i |-> PyNone, t |-> 0]
Row(a, i, t) == [k |-> "row", a |-> a, i |-> i, t |-> t]
NotAsked == [k |-> "none", a |-> 0, i |-> 0, t |-> 0]
QueryRaised == [k |-> "raise", a |-> 0, i |-> 0, t |-> 0]

\* what the twin run is answered: the row (0, 0, 0) where the run gets no row
TwinAnswer(r) == IF r = NoRow THEN Row(0, 0, 0) ELSE r

\* a faulty variant of FetchOrZero: without "or (0, 0, 0)" a missing row leaves None
FetchOrZero_None(r) == IF r.k = "norow" THEN NullRow ELSE r

\* cur.fetchone() or (0, 0, 0)
FetchOrZero(r) == IF r.k = "norow" THEN Row(0, 0, 0) ELSE r

AfterQuery1(ll, r) ==
    [ll EXCEPT !.db_active = FetchOrZero(r).a,
               !.db_idle_in_tx = FetchOrZero(r).i,
               !.db_total = FetchOrZero(r).t]

AfterQuery2(ll, r) ==
    [ll EXCEPT !.af_active = FetchOrZero(r).a,
               !.af_idle_in_tx = FetchOrZero(r).i,
               !.af_total = FetchOrZero(r).t]

\* a faulty variant of Exceeds: the comparison is not strict
Exceeds_NotStrict(v, limit) == v >= limit

\* v > limit
Exceeds(v, limit) == v > limit

\* Gauge.set for each <<gauge, value>> in turn; set(None) raises TypeError
\* and the gauges set before it keep their new values
RECURSIVE SetAll(_, _)
SetAll(gg, todo) ==
    IF todo = <<>> THEN [g |-> gg, ok |-> TRUE]
    ELSE IF Head(todo)[2] = PyNone THEN [g |-> gg, ok |-> FALSE]
    ELSE SetAll([gg EXCEPT ![Head(todo)[1]] = Head(todo)[2]], Tail(todo))

\* the threshold analysis and the publication; ok = FALSE: TypeError
Publish(gg, ll, c) ==
    LET g1 == IF ll.latency_ms >= 0
              THEN [gg EXCEPT !.latency = ll.latency_ms]
              ELSE [gg EXCEPT !.latency = -1]
        s1 == IF ll.latency_ms >= 0
              THEN IF Exceeds(ll.latency_ms, c.WARN_LATENCY_MS.n)
                   THEN Max(ll.status, 1) ELSE ll.status
              ELSE Max(ll.status, 2)
        set == SetAll(g1, << <<"db_total", ll.db_total>>,
                             <<"db_active", ll.db_active>>,
                             <<"db_idle_in_tx", ll.db_idle_in_tx>>,
                             <<"af_total", ll.af_total>>,
                             <<"af_active", ll.af_active>>,
                             <<"af_idle_in_tx", ll.af_idle_in_tx>> >>)
        s2 == IF Exceeds(ll.db_idle_in_tx, c.WARN_IDLE_IN_TX.n)
              THEN Max(s1, 1) ELSE s1
        s3 == IF Exceeds(ll.db_active, c.WARN_ACTIVE_CONN.n)
              THEN Max(s2, 1) ELSE s2
    IN  IF set.ok THEN [g |-> [set.g EXCEPT !.status = s3], ok |-> TRUE]
        ELSE set

\* a faulty variant of AfterClose: the session is left open
AfterClose_Leak(n) == n

\* conn.close()
AfterClose(n) == n - 1

(***************************************************************************)
(* The answers of the environment.                                         *)
(***************************************************************************)
Around(limit) == {0} \cup (limit .. limit + MaxOver)

Latencies(c) == Around(c.WARN_LATENCY_MS.n)

DbRows(c) ==
    {Row(a, 0, a) : a \in Around(c.WARN_ACTIVE_CONN.n)}
        \cup {Row(0, i, i) : i \in Around(c.WARN_IDLE_IN_TX.n)}
        \cup {Row(50, c.WARN_IDLE_IN_TX.n + 1, 60)}

AfRows == {Row(0, 0, 0), Row(1, 0, 3)}

NewCycle ==
    [tcp |-> "none", conn |-> "none", live |-> "none", lat |-> -1,
     q1 |-> NotAsked, q2 |-> NotAsked, close |-> "none"]

(***************************************************************************)
(* The process.                                                            *)
(***************************************************************************)
Init ==
    /\ environ \in Environs
    /\ cfg = NoSettings
    /\ pc = "load"
    /\ http = FALSE
    /\ g = InitGauges
    /\ l = InitLocals
    /\ sessions = 0
    /\ cyc = NewCycle
    /\ tg = InitGauges
    /\ tl = InitLocals

\* the module is imported: every setting is read
LoadOk ==
    /\ pc = "load"
    /\ \A x \in SettingNames : LoadSettings(environ)[x].k # "raise"
    /\ cfg' = LoadSettings(environ)
    /\ pc' = "main"
    /\ UNCHANGED <<environ, http, g, l, sessions, cyc, tg, tl>>

\* env raises RuntimeError: the import fails and the process ends
LoadAbort ==
    /\ pc = "load"
    /\ \E x \in SettingNames : LoadSettings(environ)[x].k = "raise"
    /\ pc' = "startup_error"
    /\ UNCHANGED <<environ, cfg, http, g, l, sessions, cyc, tg, tl>>

\* main: start_http_server, then the first scrape_once
Main ==
    /\ pc = "main"
    /\ http' = TRUE
    /\ pc' = "tcp"
    /\ UNCHANGED <<environ, cfg, g, l, sessions, cyc, tg, tl>>

\* tcp_check with a port that is not an int: sock.connect raises TypeError,
\* which is no OSError
TcpRaise ==
    /\ pc = "tcp"
    /\ cfg.PG_PORT.k # "int"
    /\ cyc' = [cyc EXCEPT !.tcp = "raise"]
    /\ pc' = "crashed"
    /\ UNCHANGED <<environ, cfg, http, g, l, sessions, tg, tl>>

\* tcp_check returns False
TcpFail ==
    /\ pc = "tcp"
    /\ cfg.PG_PORT.k = "int"
    /\ cyc' = [cyc EXCEPT !.tcp = "fail"]
    /\ g' = MarkDown(g)
    /\ tg' = MarkDown(tg)
    /\ pc' = "sleep"
    /\ UNCHANGED <<environ, cfg, http, l, sessions, tl>>

\* tcp_check returns True
TcpOk ==
    /\ pc = "tcp"
    /\ cfg.PG_PORT.k = "int"
    /\ cyc' = [cyc EXCEPT !.tcp = "ok"]
    /\ pc' = "connect"
    /\ UNCHANGED <<environ, cfg, http, g, l, sessions, tg, tl>>

\* psycopg2.connect returns a session; PG_UP.set(1); the locals are reset
ConnectOk ==
    /\ pc = "connect"
    /\ sessions' = sessions + 1
    /\ cyc' = [cyc EXCEPT !.conn = "ok"]
    /\ g' = [g EXCEPT !.up = 1]
    /\ tg' = [tg EXCEPT !.up = 1]
    /\ l' = InitLocals
    /\ tl' = InitLocals
    /\ pc' = "select1"
    /\ UNCHANGED <<environ, cfg, http>>

\* psycopg2.connect raises OperationalError
ConnectOperationalError ==
    /\ pc = "connect"
    /\ cyc' = [cyc EXCEPT !.conn = "operr"]
    /\ g' = MarkDown(g)
    /\ tg' = MarkDown(tg)
    /\ pc' = "sleep"
    /\ UNCHANGED <<environ, cfg, http, l, sessions, tl>>

\* psycopg2.connect raises an exception that is no OperationalError: no
\* handler, it leaves scrape_once and main
ConnectOtherError ==
    /\ pc = "connect"
    /\ cyc' = [cyc EXCEPT !.conn = "err"]
    /\ pc' = "crashed"
    /\ UNCHANGED <<environ, cfg, http, g, l, sessions, tg, tl>>

\* SELECT 1 answers (1,) or something else, in lat milliseconds
Select1Ok ==
    /\ pc = "select1"
    /\ \E one \in BOOLEAN, lat \in Latencies(cfg) :
          /\ cyc' = [cyc EXCEPT !.live = IF one THEN "one" ELSE "other",
                                !.lat = lat]
          /\ l' = AfterSelect1(l, one, lat)
          /\ tl' = AfterSelect1(tl, one, lat)
    /\ pc' = "q1"
    /\ UNCHANGED <<environ, cfg, http, g, sessions, tg>>

\* conn.cursor(), cur.execute or cur.fetchone of SELECT 1 raises
Select1Raise ==
    /\ pc = "select1"
    /\ cyc' = [cyc EXCEPT !.live = "raise"]
    /\ l' = OnException(l)
    /\ tl' = OnException(tl)
    /\ pc' = "close"
    /\ UNCHANGED <<environ, cfg, http, g, sessions, tg>>

\* the unfiltered statistics query answers
Query1Ok ==
    /\ pc = "q1"
    /\ \E r \in DbRows(cfg) \cup {NoRow, NullRow} :
          /\ cyc' = [cyc EXCEPT !.q1 = r]
          /\ l' = AfterQuery1(l, r)
          /\ tl' = AfterQuery1(tl, TwinAnswer(r))
    /\ pc' = "q2"
    /\ UNCHANGED <<environ, cfg, http, g, sessions, tg>>

Query1Raise ==
    /\ pc = "q1"
    /\ cyc' = [cyc EXCEPT !.q1 = QueryRaised]
    /\ l' = OnException(l)
    /\ tl' = OnException(tl)
    /\ pc' = "close"
    /\ UNCHANGED <<environ, cfg, http, g, sessions, tg>>

\* the Airflow/Celery statistics query answers
Query2Ok ==
    /\ pc = "q2"
    /\ \E r \in AfRows \cup {NoRow, NullRow} :
          /\ cyc' = [cyc EXCEPT !.q2 = r]
          /\ l' = AfterQuery2(l, r)
          /\ tl' = AfterQuery2(tl, TwinAnswer(r))
    /\ pc' = "close"
    /\ UNCHANGED <<environ, cfg, http, g, sessions, tg>>

Query2Raise ==
    /\ pc = "q2"
    /\ cyc' = [cyc EXCEPT !.q2 = QueryRaised]
    /\ l' = OnException(l)
    /\ tl' = OnException(tl)
    /\ pc' = "close"
    /\ UNCHANGED <<environ, cfg, http, g, sessions, tg>>

\* finally: conn.close() returns
CloseOk ==
    /\ pc = "close"
    /\ sessions' = AfterClose(sessions)
    /\ cyc' = [cyc EXCEPT !.close = "ok"]
    /\ pc' = "publish"
    /\ UNCHANGED <<environ, cfg, http, g, l, tg, tl>>

\* finally: conn.close() raises; the exception leaves scrape_once and main
CloseRaise ==
    /\ pc = "close"
    /\ sessions' = AfterClose(sessions)
    /\ cyc' = [cyc EXCEPT !.close = "raise"]
    /\ pc' = "crashed"
    /\ UNCHANGED <<environ, cfg, http, g, l, tg, tl>>

\* the threshold analysis publishes every gauge and scrape_once returns
PublishOk ==
    /\ pc = "publish"
    /\ Publish(g, l, cfg).ok
    /\ g' = Publish(g, l, cfg).g
    /\ tg' = Publish(tg, tl, cfg).g
    /\ l' = InitLocals
    /\ tl' = InitLocals
    /\ pc' = "sleep"
    /\ UNCHANGED <<environ, cfg, http, sessions, cyc>>

\* Gauge.set(None) raises TypeError part of the way through
PublishCrash ==
    /\ pc = "publish"
    /\ ~Publish(g, l, cfg).ok
    /\ g' = Publish(g, l, cfg).g
    /\ tg' = Publish(tg, tl, cfg).g
    /\ pc' = "crashed"
    /\ UNCHANGED <<environ, cfg, http, l, sessions, cyc, tl>>

\* time.sleep(SCRAPE_INTERVAL), then the next scrape_once
Sleep ==
    /\ pc = "sleep"
    /\ cyc' = NewCycle
    /\ pc' = "tcp"
    /\ UNCHANGED <<environ, cfg, http, g, l, sessions, tg, tl>>

Next ==
    \/ LoadOk
    \/ LoadAbort
    \/ Main
    \/ TcpRaise
    \/ TcpFail
    \/ TcpOk
    \/ ConnectOk
    \/ ConnectOperationalError
    \/ ConnectOtherError
    \/ Select1Ok
    \/ Select1Raise
    \/ Query1Ok
    \/ Query1Raise
    \/ Query2Ok
    \/ Query2Raise
    \/ CloseOk
    \/ CloseRaise
    \/ PublishOk
    \/ PublishCrash
    \/ Sleep

Spec == Init /\ [][Next]_vars

(***************************************************************************)
(* The claims.                                                             *)
(***************************************************************************)
Absent(name) == environ[name].k = "none"

SessionCounts(gg) ==
    <<gg.db_total, gg.db_active, gg.db_idle_in_tx,
      gg.af_total, gg.af_active, gg.af_idle_in_tx>>

\* the cycle has ended: scrape_once returned, or an exception left it
CycleEnded == pc \in {"sleep", "crashed"} /\ cyc.tcp # "none"

SomeQueryRaised ==
    cyc.live = "raise" \/ cyc.q1 = QueryRaised \/ cyc.q2 = QueryRaised

\* C1: a cycle whose TCP check fails leaves the six session-count gauges as
\* they were and sets airflow_pg_up to 0, airflow_pg_latency_ms to -1 and
\* airflow_pg_status to 2.
C1_OutageRetention ==
    [][(pc = "tcp" /\ cyc'.tcp = "fail") =>
          /\ SessionCounts(g') = SessionCounts(g)
          /\ g'.up = 0 /\ g'.latency = -1 /\ g'.status = 2
          /\ pc' = "sleep"]_vars

\* an outage cycle has ended with counts of an earlier cycle still published
C1_Witness ==
    /\ pc = "sleep" /\ cyc.tcp = "fail"
    /\ g.db_total > 0 /\ g.af_total > 0
    /\ g.up = 0 /\ g.latency = -1 /\ g.status = 2

\* C2: no error is fatal to the daemon: whatever the probes answer or raise,
\* no exception leaves scrape_once and the loop of main (stated for a port
\* setting that is an int, so that the probes themselves are what fails).
C2_NeverFatal == cfg.PG_PORT.k = "int" => pc # "crashed"

\* C3: in a cycle whose TCP check and connect succeed, whose liveness query
\* answers 1 and in which no query raises, the published status is 1 if the
\* latency, the unfiltered idle-in-transaction count or the unfiltered
\* active count is strictly above its threshold, and 0 otherwise.
C3_HealthClassification ==
    (/\ pc = "sleep" /\ cyc.tcp = "ok" /\ cyc.conn = "ok" /\ cyc.live = "one"
     /\ cyc.q1.k \in {"row", "norow"} /\ cyc.q2.k \in {"row", "norow"})
    => g.status = IF \/ cyc.lat > cfg.WARN_LATENCY_MS.n
                     \/ cyc.q1.i > cfg.WARN_IDLE_IN_TX.n
                     \/ cyc.q1.a > cfg.WARN_ACTIVE_CONN.n
                  THEN 1 ELSE 0

\* a healthy cycle with the latency and the active count exactly at their
\* thresholds has published OK
C3_Witness ==
    /\ pc = "sleep" /\ cyc.tcp = "ok" /\ cyc.conn = "ok" /\ cyc.live = "one"
    /\ cyc.q1.k = "row" /\ cyc.q2.k = "row"
    /\ cyc.lat = cfg.WARN_LATENCY_MS.n
    /\ cyc.q1.a = cfg.WARN_ACTIVE_CONN.n
    /\ g.status = 0

\* C4: when the liveness query or a statistics query raises, the cycle still
\* runs the threshold analysis and publishes: status 2, what was gathered
\* before the failing query as measured, everything else 0 (latency -1).
C4_PartialFailure ==
    (CycleEnded /\ cyc.conn = "ok" /\ SomeQueryRaised) =>
        /\ pc = "sleep"
        /\ g.status = 2
        /\ g.latency = (IF cyc.live = "raise" THEN -1 ELSE cyc.lat)
        /\ <<g.db_active, g.db_idle_in_tx, g.db_total>> =
              (IF cyc.q1.k = "row" THEN <<cyc.q1.a, cyc.q1.i, cyc.q1.t>>
               ELSE <<0, 0, 0>>)
        /\ <<g.af_active, g.af_idle_in_tx, g.af_total>> = <<0, 0, 0>>

\* C5: a connect is attempted only after a successful TCP check and a query
\* only after a successful connect of the same cycle; a cycle whose TCP
\* check fails or whose session cannot be opened ends with status 2 and
\* latency -1.
C5_ShortCircuit ==
    /\ cyc.conn # "none" => cyc.tcp = "ok"
    /\ (cyc.live # "none" \/ cyc.q1 # NotAsked \/ cyc.q2 # NotAsked)
          => cyc.conn = "ok"
    /\ (CycleEnded /\ (cyc.tcp = "fail" \/ cyc.conn \in {"operr", "err"}))
          => (g.status = 2 /\ g.latency = -1)

\* C6: at most one session is open at any time, it is open only between the
\* connect and the close of one cycle, and scrape_once never ends after a
\* connect without having called close.
C6_SessionRelease ==
    /\ sessions = (IF pc \in {"select1", "q1", "q2", "close"} THEN 1 ELSE 0)
    /\ (CycleEnded /\ cyc.conn = "ok") => cyc.close # "none"

\* a cycle in which a statistics query raised has ended with no session open
C6_Witness ==
    /\ pc = "sleep" /\ cyc.conn = "ok" /\ cyc.q1 = QueryRaised
    /\ cyc.close = "ok" /\ sessions = 0

\* C7: a run and its twin, which is answered the row (0, 0, 0) wherever the
\* run is answered no row, have the same locals and publish the same gauges;
\* a cycle answered no row publishes the counts 0, 0, 0.
C7_MissingRow ==
    /\ tg = g
    /\ tl = l
    /\ (pc = "sleep" /\ cyc.q1 = NoRow) =>
          <<g.db_active, g.db_idle_in_tx, g.db_total>> = <<0, 0, 0>>
    /\ (pc = "sleep" /\ cyc.q2 = NoRow) =>
          <<g.af_active, g.af_idle_in_tx, g.af_total>> = <<0, 0, 0>>

\* a cycle in which both statistics queries returned no row has published OK
C7_Witness ==
    /\ pc = "sleep" /\ cyc.live = "one"
    /\ cyc.q1 = NoRow /\ cyc.q2 = NoRow
    /\ g.up = 1 /\ g.status = 0

\* C8 as stated: the daemon aborts at startup exactly when the host or the
\* password is absent.
C8_HostAndPasswordRequired ==
    pc # "load" =>
        (pc = "startup_error" <=>
            (Absent("AF_PG_HOST") \/ Absent("AF_PG_PASSWORD")))

\* C8 amended: the daemon aborts at startup exactly when the password is
\* absent, before the endpoint is started and before any cycle; every other
\* setting, the host included, falls back to its default when absent.
C8_PasswordRequired ==
    /\ pc # "load" => (pc = "startup_error" <=> Absent("AF_PG_PASSWORD"))
    /\ pc = "startup_error" =>
          (~http /\ cyc = NewCycle /\ g = InitGauges /\ cfg = NoSettings)
    /\ pc \notin {"load", "startup_error"} =>
          /\ Absent("AF_PG_HOST") => cfg.PG_HOST = PyStr(S_localhost)
          /\ Absent("AF_PG_PORT") => cfg.PG_PORT = PyInt(5432)
          /\ Absent("AF_PG_DB") => cfg.PG_DB = PyStr(S_airflow)
          /\ Absent("AF_PG_USER") => cfg.PG_USER = PyStr(S_airflow)
          /\ Absent("AF_WARN_IDLE_IN_TX") => cfg.WARN_IDLE_IN_TX = PyInt(5)
          /\ Absent("AF_WARN_ACTIVE_CONN") => cfg.WARN_ACTIVE_CONN = PyInt(80)
          /\ Absent("AF_WARN_LATENCY_MS") => cfg.WARN_LATENCY_MS = PyInt(500)
          /\ Absent("AF_SCRAPE_INTERVAL_SECONDS") => cfg.SCRAPE_INTERVAL = PyInt(10)
          /\ Absent("AF_EXPORTER_PORT") => cfg.EXPORTER_PORT = PyInt(9105)
          /\ Absent("AF_EXPORTER_ADDR") => cfg.EXPORTER_ADDR = PyStr(S_anyaddr)

\* the startup has been aborted for the missing password, the host being set
C8_Witness ==
    /\ pc = "startup_error" /\ Absent("AF_PG_PASSWORD")
    /\ ~Absent("AF_PG_HOST") /\ ~http

\* C9: after a completed cycle airflow_pg_up is 1 if and only if the connect
\* succeeded and the SELECT 1 query went through in that cycle.
C9_UpFlag ==
    pc = "sleep" =>
        (g.up = 1 <=> (cyc.conn = "ok" /\ cyc.live \in {"one", "other"}))

\* C10: after a completed cycle the status is 0, 1 or 2; latency -1 implies
\* status 2; up 0 implies latency -1 and status 2.
C10_GaugeConsistency ==
    pc = "sleep" =>
        /\ g.status \in {0, 1, 2}
        /\ g.latency = -1 => g.status = 2
        /\ g.up = 0 => (g.latency = -1 /\ g.status = 2)

\* a cycle has ended with the session opened and no latency measured
C10_Witness ==
    /\ pc = "sleep" /\ cyc.conn = "ok"
    /\ g.up = 1 /\ g.latency = -1 /\ g.status = 2

====
